---------------------------- MODULE Spec2Model ----------------------------
(***************************************************************************)
(* Model of izzy_heartbeat/heartbeat.py: the HeartbeatMessage codec        *)
(* (set_data, get_message, process_packet), the server thread that        *)
(* broadcasts a message, and the listener and responder threads that share *)
(* the hb_messages queue.                                                  *)
(*                                                                         *)
(* Python values are modelled as follows.  A bytes/bytearray/list of bytes *)
(* is a sequence of integers 0..255.  An attribute that may be None is     *)
(* None (the empty tuple) or Some(v) (the one-element tuple <<v>>).  A     *)
(* call that raises is modelled by its exception's name, together with     *)
(* the state the object was left in when the exception was raised.         *)
(***************************************************************************)
EXTENDS Integers, Sequences, FiniteSets, TLC

VARIABLES
    \* ---- codec exercise (SpecEncode, SpecDecode) ----
    msg,          \* a HeartbeatMessage built by its constructor and set_data
    set_calls,    \* number of set_data calls made on msg
    packet,       \* None, or Some(result of msg.get_message())
    dec,          \* a HeartbeatMessage on which process_packet is called
    dec_calls,    \* number of process_packet calls made on dec
    last,         \* None, or Some(record of the last process_packet call)
    \* ---- the network and the clock ----
    now,          \* the current time
    rcv_socket,   \* datagrams delivered to the listener's socket, not yet read
    delivered,    \* every datagram delivered so far, in order
    sent,         \* what send_socket.sendto has transmitted, in order
    \* ---- HeartbeatListenerThread ----
    lst_running,  \* self._running
    lst_pc,       \* position of run(): while, recvfrom, process_packet, put,
                  \* emit; exited (loop left), raised (ended by an exception)
    lst_data,     \* the local data
    lst_address,  \* the local address
    lst_message,  \* self.message
    signal,       \* self.signal: None or Some("signal")
    emitted,      \* number of signal.emit() calls made
    \* ---- the shared queue ----
    hb_messages,  \* the items put and not yet taken
    hb_origin,    \* for each item of hb_messages, the datagram it was put for
                  \* and what process_packet returned and left for it
    \* ---- HeartbeatResponderThread ----
    rsp_running,  \* self._running
    rsp_pc,       \* position of run(): while, get; exited, raised
    rsp,          \* received_message, reply_message, mother, izzy and whether
                  \* send_socket is closed
    handled,      \* one record per item the responder has taken
    built,        \* one record per reply payload built
    \* ---- HeartbeatServerThread ----
    srv_running,  \* self._running
    srv_pc,       \* position of run(): while, sendto, sleep; exited, raised
    srv_message,  \* self.message
    srv_interval, \* self.interval
    srv_slept,    \* the time spent in time.sleep so far
    broadcasts,   \* what the server's send_socket.sendto has transmitted
    \* ---- calls of stop() made so far, per thread ----
    stop_called   \* [srv, lst, rsp |-> BOOLEAN]

codecVars == <<msg, set_calls, packet, dec, dec_calls, last>>

netVars == <<now, rcv_socket, delivered, sent>>

lstVars == <<lst_running, lst_pc, lst_data, lst_address, lst_message, signal, emitted>>

queueVars == <<hb_messages, hb_origin>>

rspVars == <<rsp_running, rsp_pc, rsp, handled, built>>

srvVars == <<srv_running, srv_pc, srv_message, srv_interval, srv_slept, broadcasts>>

threadVars == <<netVars, lstVars, queueVars, rspVars, srvVars, stop_called>>

vars == <<codecVars, threadVars>>

-----------------------------------------------------------------------------
(* Bounds of the model *)

\* set_data calls made on one message
MaxSetData == 2
\* short payloads have 0..MaxShort bytes
MaxShort == 2
\* the long payload (the largest payload length the round trip is stated for)
LongPayload == 200
\* process_packet calls made on one message in SpecDecode
MaxDecodes == 2
\* datagrams the network delivers
MaxDatagrams == 2
\* the clock runs from 0 to MaxClock
MaxClock == 1
\* packets the server broadcasts
MaxBeacons == 2
\* reply payloads built with one reply_message
MaxBuilds == 2
\* the largest reading of the izzy object
MaxReading == 2

-----------------------------------------------------------------------------
(* Python helpers *)

None == <<>>
Some(v) == <<v>>

Min(a, b) == IF a < b THEN a ELSE b

\* data[a:b] of Python: 0-based, end-exclusive, clamped to the length
Slice(s, a, b) == SubSeq(s, a + 1, Min(b, Len(s)))

\* n copies of byte b
Fill(n, b) == [i \in 1..n |-> b]

\* bytearray.append(x) accepts only an integer in range(0, 256)
IsByte(x) == x \in 0..255

\* uuid.UUID(bytes=b): a 16-byte value; its .bytes gives the bytes back
UUID(b) == [bytes |-> b]

-----------------------------------------------------------------------------
(* Program constants *)

Preamble == 16
BaseLength == 46
\* 'izzymessage'
IzzyMessage == <<105, 122, 122, 121, 109, 101, 115, 115, 97, 103, 101>>
HELLO == 1
HERE == 2

-----------------------------------------------------------------------------
(* class HeartbeatMessage *)

\* HeartbeatMessage.__init__(message_type): message_type is None or Some(byte)
HeartbeatMessage(message_type) ==
    [preamble     |-> Preamble,
     msg_id       |-> Some(IzzyMessage),
     msg_length   |-> BaseLength,
     sender_id    |-> None,
     receiver_id  |-> None,
     message_type |-> message_type,
     data         |-> None]

\* HeartbeatMessage.set_data(data): data is None or Some(bytes)
set_data(self, data) ==
    [self EXCEPT !.data = data,
                 !.msg_length = IF data # None THEN @ + Len(data[1]) ELSE @]

\* HeartbeatMessage.get_message(): [raised, message]; raised is "" when the
\* call returns message, else the exception bytearray.append raised
get_message(self) ==
    LET a1 == <<self.preamble>>
        a2 == a1 \o (IF self.msg_id # None THEN self.msg_id[1] ELSE Fill(11, 0))
        a3 == a2 \o <<self.msg_length>>
        a4 == a3 \o (IF self.sender_id # None THEN self.sender_id[1].bytes
                                               ELSE Fill(16, 0))
        a5 == a4 \o (IF self.receiver_id # None THEN self.receiver_id[1].bytes
                                                 ELSE Fill(16, 0))
        a6 == a5 \o self.message_type
        a7 == a6 \o (IF self.data # None THEN self.data[1] ELSE <<>>)
    IN  IF ~IsByte(self.msg_length)
        THEN [raised |-> "ValueError", message |-> a2]
        ELSE IF self.message_type = None
        THEN [raised |-> "TypeError", message |-> a5]
        ELSE [raised |-> "", message |-> a7]

\* process_packet with the payload read from offset 47 instead of 46
process_packet_skew(self, raw_data) ==
    LET data == raw_data
        n == Len(data)
        s1 == [self EXCEPT !.preamble = data[1],
                           !.msg_id = Some(Slice(data, 1, 12))]
        s2 == [s1 EXCEPT !.msg_length = data[13]]
        s3 == [s2 EXCEPT !.sender_id = Some(UUID(Slice(data, 13, 29)))]
        s4 == [s3 EXCEPT !.receiver_id = Some(UUID(Slice(data, 29, 45)))]
        s5 == [s4 EXCEPT !.message_type = Some(data[46])]
        s6 == [s5 EXCEPT !.data = IF n > 46 THEN Some(Slice(data, 47, n))
                                            ELSE None]
    IN  IF n = 0 THEN [ret |-> "IndexError", self |-> self]
        ELSE IF n < 13 THEN [ret |-> "IndexError", self |-> s1]
        ELSE IF n # data[13] THEN [ret |-> "False", self |-> s1]
        ELSE IF Len(Slice(data, 13, 29)) # 16 THEN [ret |-> "ValueError", self |-> s2]
        ELSE IF Len(Slice(data, 29, 45)) # 16 THEN [ret |-> "ValueError", self |-> s3]
        ELSE IF n < 46 THEN [ret |-> "IndexError", self |-> s4]
        ELSE [ret |-> "True", self |-> s6]

\* HeartbeatMessage.process_packet(raw_data): [ret, self]; ret is "True" or
\* "False" when the call returns, else the exception raised (an index past
\* the end of data, or a UUID built from other than 16 bytes); self is the
\* message as the call left it
process_packet(self, raw_data) ==
    LET data == raw_data
        n == Len(data)
        s1 == [self EXCEPT !.preamble = data[1],
                           !.msg_id = Some(Slice(data, 1, 12))]
        s2 == [s1 EXCEPT !.msg_length = data[13]]
        s3 == [s2 EXCEPT !.sender_id = Some(UUID(Slice(data, 13, 29)))]
        s4 == [s3 EXCEPT !.receiver_id = Some(UUID(Slice(data, 29, 45)))]
        s5 == [s4 EXCEPT !.message_type = Some(data[46])]
        s6 == [s5 EXCEPT !.data = IF n > 46 THEN Some(Slice(data, 46, n))
                                            ELSE None]
    IN  IF n = 0 THEN [ret |-> "IndexError", self |-> self]
        ELSE IF n < 13 THEN [ret |-> "IndexError", self |-> s1]
        ELSE IF n # data[13] THEN [ret |-> "False", self |-> s1]
        ELSE IF Len(Slice(data, 13, 29)) # 16 THEN [ret |-> "ValueError", self |-> s2]
        ELSE IF Len(Slice(data, 29, 45)) # 16 THEN [ret |-> "ValueError", self |-> s3]
        ELSE IF n < 46 THEN [ret |-> "IndexError", self |-> s4]
        ELSE [ret |-> "True", self |-> s6]

-----------------------------------------------------------------------------
(* Inputs of the codec exercise *)

\* a payload of n bytes
Bytes(n) == [i \in 1..n |-> (37 * i) % 256]

IdA == Fill(16, 161)
IdB == Fill(16, 178)
IdZero == Fill(16, 0)

\* the arguments of set_data
Payloads ==
    {None} \cup {Some(Bytes(n)) : n \in 0..MaxShort} \cup {Some(Bytes(LongPayload))}

\* the message-type arguments of the constructor (None is its default)
MessageTypes == {None, Some(HELLO), Some(255)}

\* a packet laid out field by field
Frame(pre, tag, lenb, sid, rid, mt, payload) ==
    <<pre>> \o tag \o <<lenb>> \o sid \o rid \o <<mt>> \o payload

WrongTag == <<105, 122, 122, 121, 109, 101, 115, 115, 97, 103, 88>>

\* the 46-byte beacon: zero ids, type HELLO
Beacon == Frame(Preamble, IzzyMessage, 46, IdZero, IdZero, HELLO, <<>>)

\* a HELLO of sender id sid
HelloFrom(sid) == Frame(Preamble, IzzyMessage, 46, sid, IdZero, HELLO, <<>>)

\* the first n bytes of a packet whose length byte is n
Truncated(n) == Slice(Frame(Preamble, IzzyMessage, n, IdA, IdB, HELLO, <<>>), 0, n)

\* datagram sizes below the 46-byte header
ShortLens == {0, 1, 12, 13, 28, 29, 44, 45}

\* the datagrams process_packet is exercised on
Datagrams ==
    {Beacon, HelloFrom(IdA)}
    \cup {Frame(Preamble, IzzyMessage, 46 + n, IdA, IdB, HERE, Bytes(n)) : n \in 1..MaxShort}
    \cup {Frame(1, IzzyMessage, 46, IdA, IdB, HELLO, <<>>),
          Frame(Preamble, WrongTag, 46, IdB, IdA, HELLO, <<>>),
          Frame(1, WrongTag, 47, IdA, IdB, HELLO, <<>>),
          Frame(Preamble, IzzyMessage, 46, IdA, IdB, HELLO, Bytes(1)),
          Slice(Beacon, 0, 13)}
    \cup {Truncated(n) : n \in ShortLens}

\* the states the decoding message starts a round trip in
DecoderStates ==
    {HeartbeatMessage(None),
     process_packet(HeartbeatMessage(None),
                    Frame(1, WrongTag, 47, IdB, IdA, HERE, Bytes(1))).self}

-----------------------------------------------------------------------------
(* The objects the threads are constructed with *)

\* Ports.UDP_FROM_CLIENT_PORT
UDP_FROM_CLIENT_PORT == 9000
\* the buffer size of rcv_socket.recvfrom
RecvBuffer == 1024

\* source addresses (ip, port) of the datagrams
AddrMother == <<"10.0.0.1", 9001>>
AddrOther == <<"10.0.0.2", 9001>>

\* struct.pack("f", x): the four bytes of the float x (x is a small number here)
Pack(x) == <<0, 0, x, 63>>

\* ",".encode()
Delimiter == <<44>>

\* the izzy object (izzy_devices): its uuid, its status, the bytes its
\* build_status_message() returns, and the readings the FOLLOWING reply appends
Izzy(status) ==
    [uuid |-> UUID(Fill(16, 238)),
     status |-> status,
     status_message |-> <<83, 84>>,
     kp |-> 1, ki |-> 2, kd |-> 3, error |-> 4, error_angle |-> 5,
     left_min |-> 6, left_max |-> 7, left_reading |-> 8,
     right_min |-> 9, right_max |-> 10, right_reading |-> 11]

\* the mother object (izzy_devices) before any contact
Mother ==
    [my_id |-> None, ip_address |-> None, status |-> "DISCONNECTED",
     last_contact |-> None]

\* the payload of the reply with the last field left out
reply_data_short(izzy) ==
    LET data == izzy.status_message
    IN  IF izzy.status = "FOLLOWING"
        THEN data \o Delimiter \o Pack(izzy.kp)
                  \o Delimiter \o Pack(izzy.ki)
                  \o Delimiter \o Pack(izzy.kd)
                  \o Delimiter \o Pack(izzy.error)
                  \o Delimiter \o Pack(izzy.error_angle)
                  \o Delimiter \o Pack(izzy.left_min)
                  \o Delimiter \o Pack(izzy.left_max)
                  \o Delimiter \o Pack(izzy.left_reading)
                  \o Delimiter \o Pack(izzy.right_min)
                  \o Delimiter \o Pack(izzy.right_min)
        ELSE data

\* lines 294-340 of HeartbeatResponderThread.run: the payload of the reply
reply_data(izzy) ==
    LET data == izzy.status_message
    IN  IF izzy.status = "FOLLOWING"
        THEN data \o Delimiter \o Pack(izzy.kp)
                  \o Delimiter \o Pack(izzy.ki)
                  \o Delimiter \o Pack(izzy.kd)
                  \o Delimiter \o Pack(izzy.error)
                  \o Delimiter \o Pack(izzy.error_angle)
                  \o Delimiter \o Pack(izzy.left_min)
                  \o Delimiter \o Pack(izzy.left_max)
                  \o Delimiter \o Pack(izzy.left_reading)
                  \o Delimiter \o Pack(izzy.right_min)
                  \o Delimiter \o Pack(izzy.right_min)
                  \o Delimiter \o Pack(izzy.right_reading)
        ELSE data

\* what one pass of the responder's loop body returns: the exception that
\* ended it ("" when it ran to its end), the responder's objects as it left
\* them, and the packets it transmitted
Outcome(raised, self, transmitted) ==
    [raised |-> raised, self |-> self, transmitted |-> transmitted]

\* the loop body taking the address as the last component of the item and
\* making no check of the received message
run_body_unchecked(self, item, t) ==
    LET address == item[Len(item)]
        received == self.received_message
        mother == self.mother
        m1 == IF mother.my_id = None \/ mother.my_id # received.sender_id
              THEN [mother EXCEPT !.my_id = received.sender_id,
                                  !.ip_address = Some(address[1]),
                                  !.status = "CONNECTED",
                                  !.last_contact = Some(t)]
              ELSE mother
        s1 == [self EXCEPT !.mother = m1]
        \* the local reply: built, and used by nothing after it
        reply == [HeartbeatMessage(None) EXCEPT
                     !.sender_id = Some(self.izzy.uuid.bytes),
                     !.receiver_id = Some(m1.my_id[1].bytes),
                     !.message_type = Some(HERE)]
        s2 == [s1 EXCEPT !.reply_message =
                             set_data(self.reply_message, Some(reply_data(self.izzy)))]
        encoded == get_message(s2.reply_message)
    IN  IF m1.my_id = None
        THEN \* self.mother.my_id.bytes
             Outcome("AttributeError", s1, <<>>)
        ELSE IF encoded.raised # ""
        THEN Outcome(encoded.raised, s2, <<>>)
        ELSE IF self.closed
        THEN \* sendto on a closed socket
             Outcome("OSError", s2, <<>>)
        ELSE Outcome("", [s2 EXCEPT !.closed = TRUE],
                     <<[packet |-> encoded.message,
                        to |-> <<m1.ip_address, UDP_FROM_CLIENT_PORT>>]>>)

\* lines 278-351 of HeartbeatResponderThread.run, for the item taken from the
\* queue at time t: self is [received_message, reply_message, mother, izzy,
\* closed]
run_body(self, item, t) ==
    IF Len(item) # 2
    THEN \* data, address = self.hb_messages.get()
         Outcome("ValueError", self, <<>>)
    ELSE
    LET address == item[2]
        received == self.received_message
        mother == self.mother
        m1 == IF mother.my_id = None \/ mother.my_id # received.sender_id
              THEN [mother EXCEPT !.my_id = received.sender_id,
                                  !.ip_address = Some(address[1]),
                                  !.status = "CONNECTED",
                                  !.last_contact = Some(t)]
              ELSE mother
        s1 == [self EXCEPT !.mother = m1]
        \* the local reply: built, and used by nothing after it
        reply == [HeartbeatMessage(None) EXCEPT
                     !.sender_id = Some(self.izzy.uuid.bytes),
                     !.receiver_id = Some(m1.my_id[1].bytes),
                     !.message_type = Some(HERE)]
        s2 == [s1 EXCEPT !.reply_message =
                             set_data(self.reply_message, Some(reply_data(self.izzy)))]
        encoded == get_message(s2.reply_message)
    IN  IF ~(/\ received.preamble = 1
             /\ received.msg_id = Some(IzzyMessage)
             /\ received.message_type = Some(HELLO))
        THEN Outcome("", self, <<>>)
        ELSE IF m1.my_id = None
        THEN \* self.mother.my_id.bytes
             Outcome("AttributeError", s1, <<>>)
        ELSE IF encoded.raised # ""
        THEN Outcome(encoded.raised, s2, <<>>)
        ELSE IF self.closed
        THEN \* sendto on a closed socket
             Outcome("OSError", s2, <<>>)
        ELSE Outcome("", [s2 EXCEPT !.closed = TRUE],
                     <<[packet |-> encoded.message,
                        to |-> <<m1.ip_address, UDP_FROM_CLIENT_PORT>>]>>)

-----------------------------------------------------------------------------
(* The network *)

\* the datagrams the network delivers, each with its source address
NetDatagrams ==
    {<<Beacon, AddrMother>>,
     <<HelloFrom(IdA), AddrMother>>,
     <<HelloFrom(IdB), AddrOther>>,
     <<Frame(Preamble, IzzyMessage, 47, IdA, IdZero, HELLO, <<>>), AddrOther>>,
     <<Frame(1, WrongTag, 46, IdB, IdZero, HERE, <<>>), AddrOther>>,
     <<Truncated(12), AddrOther>>}

\* a datagram arrives at the listener's socket
Deliver ==
    /\ Len(delivered) < MaxDatagrams
    /\ \E d \in NetDatagrams :
          /\ rcv_socket' = Append(rcv_socket, d)
          /\ delivered' = Append(delivered, d)
    /\ UNCHANGED <<now, sent, lstVars, queueVars, rspVars, codecVars, srvVars, stop_called>>

\* time passes
Tick ==
    /\ now < MaxClock
    /\ now' = now + 1
    /\ UNCHANGED <<rcv_socket, delivered, sent, lstVars, queueVars, rspVars, codecVars, srvVars, stop_called>>

-----------------------------------------------------------------------------
(* class HeartbeatListenerThread *)

\* the item of the queue holds self.message itself, not a copy of it
MessageRef == "self.message"

\* Queue.put(item): the queue with the item added
put(queue, item) == Append(queue, item)

\* Queue.get() taking the newest item instead of the oldest
get_newest(queue) ==
    [item |-> queue[Len(queue)], queue |-> SubSeq(queue, 1, Len(queue) - 1)]

\* Queue.get() on a queue that is not empty: the item taken, the queue left
get(queue) ==
    [item |-> Head(queue), queue |-> Tail(queue)]

\* while self._running:
ListenerWhile ==
    /\ lst_pc = "while"
    /\ lst_pc' = IF lst_running THEN "recvfrom" ELSE "exited"
    /\ UNCHANGED <<lst_running, lst_data, lst_address, lst_message, signal, emitted,
                   netVars, queueVars, rspVars, codecVars, srvVars, stop_called>>

\* data, address = self.rcv_socket.recvfrom(1024)
ListenerRecvfrom ==
    /\ lst_pc = "recvfrom"
    /\ rcv_socket # <<>>
    /\ lst_data' = Some(Slice(Head(rcv_socket)[1], 0, RecvBuffer))
    /\ lst_address' = Some(Head(rcv_socket)[2])
    /\ rcv_socket' = Tail(rcv_socket)
    /\ lst_pc' = "process_packet"
    /\ UNCHANGED <<lst_running, lst_message, signal, emitted,
                   now, delivered, sent, queueVars, rspVars, codecVars, srvVars, stop_called>>

\* self.message.process_packet(data)
ListenerProcessPacket ==
    LET r == process_packet(lst_message, lst_data[1])
    IN  /\ lst_pc = "process_packet"
        /\ lst_message' = r.self
        /\ lst_pc' = IF r.ret \in {"True", "False"} THEN "put" ELSE "raised"
        /\ UNCHANGED <<lst_running, lst_data, lst_address, signal, emitted,
                       netVars, queueVars, rspVars, codecVars, srvVars, stop_called>>

\* self.hb_messages.put((len(data), self.message, address))
ListenerPut ==
    /\ lst_pc = "put"
    /\ hb_messages' = put(hb_messages,
                          <<Len(lst_data[1]), MessageRef, lst_address[1]>>)
    /\ hb_origin' = put(hb_origin,
                        [data |-> lst_data[1], address |-> lst_address[1],
                         \* what process_packet(data) returned (it depends on
                         \* data alone)
                         ret |-> process_packet(lst_message, lst_data[1]).ret,
                         decoded |-> lst_message])
    /\ lst_pc' = "emit"
    /\ UNCHANGED <<lst_running, lst_data, lst_address, lst_message, signal, emitted,
                   netVars, rspVars, codecVars, srvVars, stop_called>>

\* self.signal.emit()
ListenerEmit ==
    /\ lst_pc = "emit"
    /\ IF signal = None
       THEN lst_pc' = "raised" /\ emitted' = emitted
       ELSE lst_pc' = "while" /\ emitted' = emitted + 1
    /\ UNCHANGED <<lst_running, lst_data, lst_address, lst_message, signal,
                   netVars, queueVars, rspVars, codecVars, srvVars, stop_called>>

\* HeartbeatListenerThread.stop()
ListenerStop ==
    /\ lst_running' = FALSE
    /\ stop_called' = [stop_called EXCEPT !.lst = TRUE]
    /\ UNCHANGED <<lst_pc, lst_data, lst_address, lst_message, signal, emitted,
                   netVars, queueVars, rspVars, codecVars, srvVars>>

-----------------------------------------------------------------------------
(* class HeartbeatResponderThread *)

\* while self._running:
ResponderWhile ==
    /\ rsp_pc = "while"
    /\ rsp_pc' = IF rsp_running THEN "get" ELSE "exited"
    /\ UNCHANGED <<rsp_running, rsp, handled, built, netVars, lstVars, queueVars, codecVars, srvVars, stop_called>>

\* the packet an item of the queue holds, as it is now
Deref(item) == lst_message

\* one pass of the loop body, from self.hb_messages.get() on
ResponderGet ==
    LET item == get(hb_messages).item
        origin == get(hb_origin).item
        r == run_body(rsp, item, now)
    IN  /\ rsp_pc = "get"
        /\ hb_messages # <<>>
        /\ hb_messages' = get(hb_messages).queue
        /\ hb_origin' = get(hb_origin).queue
        /\ rsp' = r.self
        /\ sent' = sent \o r.transmitted
        /\ rsp_pc' = IF r.raised = "" THEN "while" ELSE "raised"
        /\ handled' = Append(handled,
                             [item |-> item, origin |-> origin,
                              packet |-> Deref(item), time |-> now,
                              mother_before |-> rsp.mother,
                              mother_after |-> r.self.mother,
                              transmitted |-> r.transmitted,
                              raised |-> r.raised])
        /\ UNCHANGED <<rsp_running, built, now, rcv_socket, delivered, lstVars, codecVars, srvVars, stop_called>>

\* responder.stop(): the class defines no stop method, so the call raises
\* AttributeError in the caller and leaves the thread as it was
ResponderStop ==
    /\ stop_called' = [stop_called EXCEPT !.rsp = TRUE]
    /\ UNCHANGED <<netVars, lstVars, queueVars, rspVars, codecVars, srvVars>>

-----------------------------------------------------------------------------
(* class HeartbeatServerThread *)

\* Ports.UDP_TO_CLIENT_PORT
UDP_TO_CLIENT_PORT == 9001
\* the address run() sends to
Broadcast == <<"255.255.255.255", UDP_TO_CLIENT_PORT>>

\* while self._running:
ServerWhile ==
    /\ srv_pc = "while"
    /\ srv_running => Len(broadcasts) < MaxBeacons
    /\ srv_pc' = IF srv_running THEN "sendto" ELSE "exited"
    /\ UNCHANGED <<srv_running, srv_message, srv_interval, srv_slept, broadcasts,
                   netVars, lstVars, queueVars, rspVars, codecVars, stop_called>>

\* self.send_socket.sendto(self.message.get_message(), ('255.255.255.255', port))
ServerSendto ==
    LET encoded == get_message(srv_message)
    IN  /\ srv_pc = "sendto"
        /\ IF encoded.raised # ""
              THEN /\ srv_pc' = "raised"
                   /\ UNCHANGED broadcasts
              ELSE /\ srv_pc' = "sleep"
                   /\ broadcasts' = Append(broadcasts,
                                           [packet |-> encoded.message,
                                            to |-> Broadcast])
        /\ UNCHANGED <<srv_running, srv_message, srv_interval, srv_slept,
                       netVars, lstVars, queueVars, rspVars, codecVars, stop_called>>

\* time.sleep(self.interval)
ServerSleep ==
    /\ srv_pc = "sleep"
    /\ srv_slept' = srv_slept + srv_interval
    /\ srv_pc' = "while"
    /\ UNCHANGED <<srv_running, srv_message, srv_interval, broadcasts,
                   netVars, lstVars, queueVars, rspVars, codecVars, stop_called>>

\* HeartbeatServerThread.stop(), called from another thread
ServerStop ==
    /\ srv_running' = FALSE
    /\ stop_called' = [stop_called EXCEPT !.srv = TRUE]
    /\ UNCHANGED <<srv_pc, srv_message, srv_interval, srv_slept, broadcasts,
                   netVars, lstVars, queueVars, rspVars, codecVars>>

\* the messages a server is constructed with
ServerMessages == {HeartbeatMessage(mt) : mt \in {None, Some(HELLO)}}

\* HeartbeatServerThread.__init__(send_socket, message, interval)
InitServer(messages, intervals) ==
    /\ srv_running = TRUE
    /\ srv_pc = "while"
    /\ srv_message \in messages
    /\ srv_interval \in intervals
    /\ srv_slept = 0
    /\ broadcasts = <<>>

-----------------------------------------------------------------------------
\* the listener and the responder as their constructors leave them; signals
\* are the values the listener may be given as its signal, izzys the izzy
\* objects the responder may be given
InitThreads(signals, izzys) ==
    /\ stop_called = [srv |-> FALSE, lst |-> FALSE, rsp |-> FALSE]
    /\ now = 0
    /\ rcv_socket = <<>>
    /\ delivered = <<>>
    /\ sent = <<>>
    /\ lst_running = TRUE
    /\ lst_pc = "while"
    /\ lst_data = None
    /\ lst_address = None
    /\ lst_message = HeartbeatMessage(None)
    /\ signal \in signals
    /\ emitted = 0
    /\ hb_messages = <<>>
    /\ hb_origin = <<>>
    /\ rsp_running = TRUE
    /\ rsp_pc = "while"
    /\ \E izzy \in izzys :
          rsp = [received_message |-> HeartbeatMessage(None),
                 reply_message |-> HeartbeatMessage(None),
                 mother |-> Mother,
                 izzy |-> izzy,
                 closed |-> FALSE]
    /\ handled = <<>>
    /\ built = <<>>

-----------------------------------------------------------------------------
(* The codec exercise: construction, set_data, get_message, process_packet *)

InitCodec(messages, decoders) ==
    /\ msg \in messages
    /\ set_calls = 0
    /\ packet = None
    /\ dec \in decoders
    /\ dec_calls = 0
    /\ last = None

\* msg = HeartbeatMessage(mt) with sender_id and receiver_id assigned by the caller
Constructed ==
    {[HeartbeatMessage(mt) EXCEPT !.sender_id = sid, !.receiver_id = rid] :
        mt \in MessageTypes,
        sid \in {None, Some(UUID(IdA))},
        rid \in {None, Some(UUID(IdB))}}

\* msg.set_data(data)
SetData(data) ==
    /\ set_calls < MaxSetData
    /\ msg' = set_data(msg, data)
    /\ set_calls' = set_calls + 1
    /\ packet' = None
    /\ last' = None
    /\ UNCHANGED <<dec, dec_calls, threadVars>>

\* packet = msg.get_message()
Encode ==
    /\ packet = None
    /\ packet' = Some(get_message(msg))
    /\ UNCHANGED <<msg, set_calls, dec, dec_calls, last, threadVars>>

\* dec.process_packet(raw): the call, its argument, the message before it
\* and its outcome are recorded in last
Decode(raw, from_msg) ==
    LET r == process_packet(dec, raw)
    IN  /\ dec' = r.self
        /\ dec_calls' = dec_calls + 1
        /\ last' = Some([raw |-> raw, before |-> dec, ret |-> r.ret,
                         from_msg |-> from_msg])
        /\ UNCHANGED <<msg, set_calls, packet, threadVars>>

\* dec.process_packet(msg.get_message())
RoundTrip ==
    /\ packet # None
    /\ packet[1].raised = ""
    /\ last = None
    /\ Decode(packet[1].message, TRUE)

\* dec.process_packet(raw) on a received datagram
DecodeDatagram ==
    /\ dec_calls < MaxDecodes
    /\ \E raw \in Datagrams : Decode(raw, FALSE)

InitEncode ==
    /\ InitCodec(Constructed, DecoderStates)
    /\ InitThreads({Some("signal")}, {Izzy("AVAILABLE")})
    /\ InitServer({HeartbeatMessage(Some(HELLO))}, {1})

NextEncode ==
    \/ \E data \in Payloads : SetData(data)
    \/ Encode
    \/ RoundTrip

SpecEncode == InitEncode /\ [][NextEncode]_vars

InitDecode ==
    /\ InitCodec({HeartbeatMessage(None)}, {HeartbeatMessage(None)})
    /\ InitThreads({Some("signal")}, {Izzy("AVAILABLE")})
    /\ InitServer({HeartbeatMessage(Some(HELLO))}, {1})

NextDecode == DecodeDatagram

SpecDecode == InitDecode /\ [][NextDecode]_vars

-----------------------------------------------------------------------------
(* The listener and the responder running together *)

Init ==
    /\ InitCodec({HeartbeatMessage(None)}, {HeartbeatMessage(None)})
    /\ InitThreads({None, Some("signal")}, {Izzy("AVAILABLE"), Izzy("FOLLOWING")})
    /\ InitServer({HeartbeatMessage(Some(HELLO))}, {1})

Listener ==
    \/ ListenerWhile
    \/ ListenerRecvfrom
    \/ ListenerProcessPacket
    \/ ListenerPut
    \/ ListenerEmit

Responder ==
    \/ ResponderWhile
    \/ ResponderGet

Next ==
    \/ Deliver
    \/ Tick
    \/ Listener
    \/ ListenerStop
    \/ Responder

Spec == Init /\ [][Next]_vars

\* the threads are scheduled whenever they can take a step
FairSpec == Spec /\ WF_vars(Listener) /\ WF_vars(Responder)

-----------------------------------------------------------------------------
(* The reply payload: lines 291-341 of HeartbeatResponderThread.run applied to
   the izzy object *)

\* the values of izzy.status: those the match statement names, and another
Statuses == {"AVAILABLE", "MOVING", "FOLLOWING", "ESTOP", "OTHER"}

\* the izzy objects the payload is built from
Izzys ==
    {[Izzy(status) EXCEPT !.status_message = message, !.kp = reading,
                          !.right_max = reading + 1] :
        status \in Statuses,
        message \in {<<>>, <<83, 84>>, Bytes(MaxShort + 1)},
        reading \in 0..MaxReading}

\* data = self.izzy.build_status_message(); match self.izzy.status: ...;
\* self.reply_message.set_data(data)
BuildReply ==
    LET data == reply_data(rsp.izzy)
    IN  /\ Len(built) < MaxBuilds
        /\ rsp' = [rsp EXCEPT !.reply_message = set_data(@, Some(data))]
        /\ built' = Append(built, [izzy |-> rsp.izzy,
                                   base |-> rsp.izzy.status_message,
                                   data |-> data])
        /\ UNCHANGED <<rsp_running, rsp_pc, handled, netVars, lstVars, queueVars,
                       codecVars, srvVars, stop_called>>

InitReply ==
    /\ InitCodec({HeartbeatMessage(None)}, {HeartbeatMessage(None)})
    /\ InitServer({HeartbeatMessage(Some(HELLO))}, {1})
    /\ InitThreads({Some("signal")}, Izzys)

NextReply == BuildReply

SpecReply == InitReply /\ [][NextReply]_vars

-----------------------------------------------------------------------------
(* The three loops and the calls of stop() *)

InitStop ==
    /\ InitCodec({HeartbeatMessage(None)}, {HeartbeatMessage(None)})
    /\ InitThreads({Some("signal")}, {Izzy("AVAILABLE")})
    /\ InitServer(ServerMessages, {1})

Server ==
    \/ ServerWhile
    \/ ServerSendto
    \/ ServerSleep

NextStop ==
    \/ Deliver
    \/ Listener
    \/ ListenerStop
    \/ Responder
    \/ ResponderStop
    \/ Server
    \/ ServerStop

SpecStop == InitStop /\ [][NextStop]_vars

\* the server thread is scheduled whenever it can take a step
FairStop == SpecStop /\ WF_vars(Server) /\ WF_vars(Listener) /\ WF_vars(Responder)

-----------------------------------------------------------------------------
(* Claims about the codec *)

\* len(data) of a payload attribute, 0 when it is None
PayloadLen(data) == IF data = None THEN 0 ELSE Len(data[1])

\* the last call was process_packet(msg.get_message()), msg being a message
\* with both ids and a message type set and a payload installed by one
\* set_data call
RoundTripDone ==
    /\ last # None
    /\ last[1].from_msg
    /\ set_calls = 1
    /\ msg.data # None
    /\ msg.sender_id # None
    /\ msg.receiver_id # None
    /\ msg.message_type # None

\* the six header fields of the decoding message equal those of msg (msg_id
\* is compared byte by byte: the constructor holds it as a list, process_packet
\* stores it as bytes)
HeaderReproduced ==
    /\ dec.preamble = msg.preamble
    /\ dec.msg_id = msg.msg_id
    /\ dec.msg_length = msg.msg_length
    /\ dec.sender_id = msg.sender_id
    /\ dec.receiver_id = msg.receiver_id
    /\ dec.message_type = msg.message_type

\* C1 as stated: process_packet(get_message(m)) returns True and leaves the
\* decoding message with every field, data included, equal to that of m.
C1_RoundTripExact ==
    RoundTripDone =>
        /\ last[1].ret = "True"
        /\ HeaderReproduced
        /\ dec.data = msg.data

\* C1 as amended: process_packet(get_message(m)) returns True and reproduces
\* preamble, msg_id, msg_length, sender_id, receiver_id and message_type; data
\* equals that of m when the payload is not empty and is None when it is empty.
C1_RoundTrip ==
    RoundTripDone =>
        /\ last[1].ret = "True"
        /\ HeaderReproduced
        /\ dec.data = (IF PayloadLen(msg.data) = 0 THEN None ELSE msg.data)

\* a round trip of a message carrying the long payload, decoded into a
\* message that held another packet before
C1_Witness ==
    /\ RoundTripDone
    /\ PayloadLen(msg.data) = LongPayload
    /\ last[1].before # HeartbeatMessage(None)
    /\ last[1].ret = "True"

\* C2: for a message built by construction and set_data calls, get_message
\* returns 46 + len(data) bytes (46 when data is None or empty).
C2_EncodedSize ==
    (packet # None /\ msg.message_type # None) =>
        /\ packet[1].raised = ""
        /\ Len(packet[1].message) = 46 + PayloadLen(msg.data)

\* C3: the length byte get_message writes at offset 12 equals 46 + len(data),
\* the number of bytes emitted, after any sequence of set_data calls.
C3_LengthField ==
    (packet # None /\ packet[1].raised = "") =>
        /\ packet[1].message[13] = 46 + PayloadLen(msg.data)
        /\ packet[1].message[13] = Len(packet[1].message)

\* len(raw) == raw[12], false when raw has no byte 12
LengthByteMatches(raw) == Len(raw) >= 13 /\ raw[13] = Len(raw)

\* C4: process_packet(raw) returns True exactly when len(raw) equals raw[12]
\* and returns False otherwise, whatever the preamble and the tag.
C4_DecodeAcceptance ==
    last # None =>
        /\ last[1].ret \in {"True", "False"}
        /\ (last[1].ret = "True") <=> LengthByteMatches(last[1].raw)

\* C5: when process_packet(raw) returns False, every field of the message has
\* the value it had before the call.
C5_FailedDecodeChangesNothing ==
    (last # None /\ last[1].ret = "False") => dec = last[1].before

-----------------------------------------------------------------------------
(* Claims about the responder *)

\* the records of the items the responder has taken
Handled == {handled[i] : i \in 1..Len(handled)}

\* the checks the responder is to make of a packet: preamble 0x10, the tag
\* 'izzymessage', type HELLO
ValidHello(p) ==
    /\ p.preamble = Preamble
    /\ p.msg_id = Some(IzzyMessage)
    /\ p.message_type = Some(HELLO)

\* the source address of an item: its last component
AddressOf(item) == item[Len(item)]

\* C6: for each item taken, the responder updates the session and sends a
\* reply if and only if the packet of the item has preamble 0x10, the tag
\* 'izzymessage' and type HELLO; otherwise the session is unchanged, nothing is
\* sent and the responder goes on to the next item.
C6_ResponderValidation ==
    \A h \in Handled :
        IF ValidHello(h.packet)
        THEN /\ h.transmitted # <<>>
             /\ h.mother_after.last_contact = Some(h.time)
        ELSE /\ h.transmitted = <<>>
             /\ h.mother_after = h.mother_before
             /\ h.raised = ""

\* C7: after a valid HELLO whose sender id is not the session's remote id, the
\* session has that sender id, the item's source address, status CONNECTED and
\* the time of the HELLO as last contact.
C7_SessionCreation ==
    \A h \in Handled :
        (/\ ValidHello(h.packet)
         /\ \/ h.mother_before.my_id = None
            \/ h.mother_before.my_id # h.packet.sender_id)
        => /\ h.mother_after.my_id = h.packet.sender_id
           /\ h.mother_after.ip_address = Some(AddressOf(h.item)[1])
           /\ h.mother_after.status = "CONNECTED"
           /\ h.mother_after.last_contact = Some(h.time)

\* C8: every valid HELLO refreshes the last contact to the current time, and
\* one whose sender id is the session's remote id leaves the remote id, the
\* address and the status as they were.
C8_SessionStability ==
    \A h \in Handled :
        ValidHello(h.packet)
        => /\ h.mother_after.last_contact = Some(h.time)
           /\ h.mother_before.my_id = h.packet.sender_id
              => /\ h.mother_after.my_id = h.mother_before.my_id
                 /\ h.mother_after.ip_address = h.mother_before.ip_address
                 /\ h.mother_after.status = h.mother_before.status

BeaconDelivered ==
    /\ rcv_socket = << <<Beacon, AddrMother>> >>
    /\ signal # None
    /\ lst_running /\ lst_pc \in {"while", "recvfrom"}
    /\ hb_messages = <<>>
    /\ rsp_running /\ rsp_pc \in {"while", "get"}

\* a reply of type HERE with a payload has been sent to the beacon's source
BeaconAnswered ==
    \E i \in 1..Len(sent) :
        /\ sent[i].to[1] = Some(AddrMother[1])
        /\ Len(sent[i].packet) > 46
        /\ sent[i].packet[46] = HERE

\* C10: a beacon delivered while listener and responder are running is
\* eventually answered by a reply of type HERE with a payload, sent to the
\* beacon's source address (unless the listener is stopped first).
C10_EndToEnd == BeaconDelivered ~> (BeaconAnswered \/ ~lst_running)


-----------------------------------------------------------------------------
(* Claims about the listener *)

\* the number of datagrams recvfrom has returned to the listener
Received == Len(delivered) - Len(rcv_socket)

\* the number of records the listener has put on the queue
Pushed == Len(handled) + Len(hb_messages)

\* the listener is not in the middle of a pass of its loop
BetweenDatagrams == lst_pc \in {"while", "recvfrom", "exited", "raised"}

\* C11: with a signal to notify, every datagram the listener received has
\* produced one record on the queue, holding the datagram's byte count and
\* source address, and one notification, whether or not process_packet
\* accepted the datagram.
C11_EveryDatagramEnqueued ==
    (signal # None /\ BetweenDatagrams) =>
        /\ Pushed = Received
        /\ emitted = Received
        /\ \A i \in 1..Len(hb_messages) :
              LET d == delivered[Len(handled) + i]
              IN  hb_messages[i] = <<Len(d[1]), MessageRef, d[2]>>

\* C12: a listener constructed with signal None that has put the record of a
\* datagram on the queue goes on with its loop; it does not end in an error.
C12_AbsentSignalNoOp ==
    (signal = None /\ Pushed >= 1) => lst_pc # "raised"

\* the datagrams of the records in the order the responder takes them: those
\* it has taken, then those still on the queue
PopOrder == [i \in 1..Len(handled) |-> handled[i].origin] \o hb_origin

\* C13: the records leave the queue in the order the listener put them, which
\* is the order the datagrams were received in, none lost and none twice: the
\* k-th record taken or waiting is the record of the k-th datagram received.
C13_FifoHandOff ==
    /\ Len(PopOrder) <= Received
    /\ \A k \in 1..Len(PopOrder) :
          /\ PopOrder[k].data = delivered[k][1]
          /\ PopOrder[k].address = delivered[k][2]
    /\ \A k \in 1..Len(handled) :
          handled[k].item = <<Len(delivered[k][1]), MessageRef, delivered[k][2]>>

\* the responder has taken the record of the first datagram while the record
\* of a second, different datagram waits on the queue
C13_Witness ==
    /\ Len(handled) = 1
    /\ Len(hb_messages) = 1
    /\ handled[1].origin.data = delivered[1][1]
    /\ hb_origin[1].data = delivered[2][1]
    /\ delivered[1] # delivered[2]

\* C17: the packet a record carries when the responder takes it has the field
\* values that process_packet left for the datagram of that record, whatever
\* the listener has received since (every datagram so far being one that
\* process_packet returned from).
C17_RecordsAreSnapshots ==
    lst_pc # "raised" =>
        \A i \in 1..Len(handled) : handled[i].packet = handled[i].origin.decoded

\* C18: the record of a datagram whose byte count differs from its length
\* byte (process_packet returned False) makes the responder neither change
\* the session nor transmit anything, whatever was received around it.
C18_FramingErrorNoReply ==
    \A i \in 1..Len(handled) :
        handled[i].origin.ret = "False" =>
            /\ handled[i].transmitted = <<>>
            /\ handled[i].mother_after = handled[i].mother_before

\* the responder has taken the record of a datagram with a framing error
\* whose packet, when taken, showed the preamble, tag and type of a HELLO
C18_Witness ==
    \E i \in 1..Len(handled) :
        /\ handled[i].origin.ret = "False"
        /\ ValidHello(handled[i].packet)
        /\ sent = <<>>

\* the number of items taken whose packet passed the checks of a HELLO
HellosTaken == Cardinality({i \in 1..Len(handled) : ValidHello(handled[i].packet)})

\* C19: process_packet returns True or False for every datagram the listener
\* receives, the short ones included, and the listener does not end in an
\* error because of a datagram.
C19_DecodeTotal ==
    lst_pc = "raised" =>
        /\ signal = None
        /\ process_packet(HeartbeatMessage(None), lst_data[1]).ret \in {"True", "False"}

\* C20: a running responder has sent one reply for each item it took whose
\* packet passed the checks of a HELLO, and has not ended in an error.
C20_KeepsAnswering ==
    /\ \A i \in 1..Len(handled) :
          ValidHello(handled[i].packet) =>
              /\ handled[i].raised = ""
              /\ Len(handled[i].transmitted) = 1
    /\ Len(sent) = HellosTaken

-----------------------------------------------------------------------------
(* Claims about stop() *)

\* a server on which stop() was called starts no pass of its loop when it
\* evaluates its flag
ServerStopsAtBoundary ==
    (stop_called.srv /\ srv_pc = "while") => srv_pc' # "sendto"

\* the same for the listener
ListenerStopsAtBoundary ==
    (stop_called.lst /\ lst_pc = "while") => lst_pc' # "recvfrom"

\* the same for the responder
ResponderStopsAtBoundary ==
    (stop_called.rsp /\ rsp_pc = "while") => rsp_pc' # "get"

\* a listener at recvfrom with nothing at its socket, and a responder at get
\* with nothing on the queue, stay there
BlockedStaysBlocked ==
    /\ (lst_pc = "recvfrom" /\ rcv_socket = <<>>) => lst_pc' = "recvfrom"
    /\ (rsp_pc = "get" /\ hb_messages = <<>>) => rsp_pc' = "get"

\* C14: once stop() has been called on the server, the listener or the
\* responder, that loop starts no new pass when it next evaluates its flag;
\* a loop blocked on an empty socket or an empty queue stays blocked.
C14_StopAtBoundary ==
    [][/\ ServerStopsAtBoundary
       /\ ListenerStopsAtBoundary
       /\ ResponderStopsAtBoundary
       /\ BlockedStaysBlocked]_vars

\* the part of C14 that concerns the server and the listener
StopAtBoundaryServerListener ==
    [][ServerStopsAtBoundary /\ ListenerStopsAtBoundary /\ BlockedStaysBlocked]_vars

\* a server on which stop() was called comes to the end of run()
StoppedServerTerminates ==
    stop_called.srv ~> (srv_pc \in {"exited", "raised"})

\* C15: a loop on which stop() has been called, once or more, is stopped and
\* stays stopped: its _running flag is False from the first call on.
C15_StopOneWay ==
    /\ stop_called.srv => ~srv_running
    /\ stop_called.lst => ~lst_running
    /\ stop_called.rsp => ~rsp_running

\* the part of C15 that concerns the server and the listener, with the flags
\* never going back to True
StopOneWayServerListener ==
    /\ [](stop_called.srv <=> ~srv_running)
    /\ [](stop_called.lst <=> ~lst_running)
    /\ [][(~srv_running => ~srv_running') /\ (~lst_running => ~lst_running')]_vars

-----------------------------------------------------------------------------
(* Claims about the reply payload *)

\* the payloads built from an izzy whose status is FOLLOWING
IsFollowing(b) == b.izzy.status = "FOLLOWING"

\* C16: a payload built while the status is FOLLOWING is the base status
\* payload followed by eleven fields of one delimiter byte and four value
\* bytes, 55 bytes in all; a payload built under any other status is the base
\* status payload itself. The payload built is the data of reply_message.
C16_StatusBranching ==
    /\ \A i \in 1..Len(built) :
          LET b == built[i]
          IN  IF IsFollowing(b)
              THEN /\ Len(b.data) = Len(b.base) + 11 * (1 + 4)
                   /\ SubSeq(b.data, 1, Len(b.base)) = b.base
                   /\ \A f \in 0..10 : b.data[Len(b.base) + 5 * f + 1] = Delimiter[1]
              ELSE b.data = b.base
    /\ built # <<>> => rsp.reply_message.data = Some(built[Len(built)].data)

\* a payload has been built from a FOLLOWING izzy with a base payload that is
\* not empty
C16_Witness ==
    /\ built # <<>>
    /\ IsFollowing(built[1])
    /\ built[1].base # <<>>
    /\ rsp.reply_message.data = Some(built[1].data)

=============================================================================
